---- MODULE Spec2Model ----
(***************************************************************************)
(* Chat subsystem of the clothing-rental marketplace: the tables, row      *)
(* level security policies and triggers of the chat migration, and the     *)
(* ChatService client (src/project/src/lib/chat.ts) that talks to them.    *)
(*                                                                         *)
(* Every request reaches the database with the identity of an             *)
(* authenticated caller (auth.uid()); the policies are evaluated against   *)
(* that identity.  Trigger functions are declared without SECURITY         *)
(* DEFINER, so the statements inside them run as the caller and are        *)
(* subject to the same policies.  A statement and its triggers are one     *)
(* transaction: an error anywhere leaves no row written.                   *)
(*                                                                         *)
(* Requests arrive through the REST interface of the platform, which       *)
(* addresses the rows of an UPDATE by column filters (WHERE id = ...).     *)
(* PostgreSQL applies the SELECT policies of a table, besides its UPDATE   *)
(* policy, to the rows such a statement reads and to the rows it writes,   *)
(* and the SELECT policies to a row an INSERT ... RETURNING gives back.    *)
(*                                                                         *)
(* Columns are modelled non-null; timestamps are integers.  The rows a     *)
(* select embeds for display (item, owner, renter, sender) are left out.   *)
(***************************************************************************)
EXTENDS Integers, FiniteSets, Sequences, TLC

\* ---------------------------------------------------------------- bounds
MaxTime == 1
MaxConv == 2
MaxMsg  == 2
MaxChan == 3
MaxRent == 2

Users == {"u1", "u2"}
\* browser sessions; each call is made by the user signed in to the session
Sessions == {"s1", "s2"}
Items == {"i1"}
\* message contents: as sent, and after an edit
Contents == {"text", "edited"}

Null == 0
ConvIds == 1..MaxConv
MsgIds  == 1..MaxMsg
ChanIds == 1..MaxChan
\* the days a rental can start and end on: 2024-06-01 .. 2024-06-03
Days == 1..3
PricePerDay == 100
\* the listing the item cards and RentItemModal show
Listed == { [id |-> "i1", owner_id |-> "u1", price_per_day |-> PricePerDay] }

VARIABLES
    now,            \* the clock: what now() and new Date() read at this moment
    conversations,  \* table conversations
    messages,       \* table messages
    participants,   \* table conversation_participants
    goc,            \* per session: getOrCreateConversation between its select and its insert
    guc,            \* getUserConversations between its list query and the enrichment
    returned,       \* what the step just taken returned to its caller, if it was a return
    items,          \* table clothing_items
    rentals,        \* table rentals
    channels,       \* the live-feed channels the client has opened
    subscriptions,  \* ChatService.subscriptions: conversation id -> channel
    handlers,       \* live-feed handlers: an event received, its re-fetch in flight
    modal,          \* ChatModal: mounted or not, what it shows, and its calls in flight
    rent            \* RentItemModal.handleSubmit between its requests

vars == <<now, conversations, messages, participants, goc, guc, returned,
          items, rentals, channels, subscriptions, handlers, modal, rent>>
db   == <<conversations, messages, participants>>
\* the live-feed state of the client
feed == <<channels, subscriptions, handlers, modal>>
\* what the chat operations leave alone
ext  == <<items, rentals, feed, rent>>

\* ------------------------------------------------------------- policies
\* "Users can view their own conversations"
ConvSelectPolicy(a, c) == a = c.owner_id \/ a = c.renter_id

\* "Users can create conversations"
ConvInsertCheck(a, c) == a = c.owner_id \/ a = c.renter_id

\* "Participants can update conversations"; with no WITH CHECK clause the
\* USING expression is also applied to the updated row
ConvUpdateUsing(a, c) == a = c.owner_id \/ a = c.renter_id

\* EXISTS (SELECT 1 FROM conversations WHERE id = conversation_id AND
\*         (owner_id = auth.uid() OR renter_id = auth.uid()))
\* the sub-select sees the rows the caller may select
IsPartyOf(a, cid, convs) ==
    \E c \in convs : /\ ConvSelectPolicy(a, c)
                     /\ c.id = cid
                     /\ (c.owner_id = a \/ c.renter_id = a)

\* "Participants can view messages in their conversations"
MsgSelectPolicy(a, m, convs) == IsPartyOf(a, m.conversation_id, convs)

\* the insert policy of messages without its sender clause
MsgInsertCheck_AnySender(a, m, convs) == IsPartyOf(a, m.conversation_id, convs)

\* "Participants can send messages"
MsgInsertCheck(a, m, convs) ==
    a = m.sender_id /\ IsPartyOf(a, m.conversation_id, convs)

\* an update policy of messages that admits every caller
MsgUpdateUsing_Anyone(a, m) == TRUE

\* "Senders can update their own messages" (USING only: also the new row)
MsgUpdateUsing(a, m) == a = m.sender_id

\* the update policy of messages alone
MsgUpdateAdmits_UpdatePolicyOnly(a, m, convs) == MsgUpdateUsing(a, m)

\* a row of messages, before or after an UPDATE ... WHERE id = ..., passes when
\* the update policy and the select policy of the table admit it
MsgUpdateAdmits(a, m, convs) ==
    MsgUpdateUsing(a, m) /\ MsgSelectPolicy(a, m, convs)

\* "Users can view their participations"
PartSelectPolicy(a, p) == a = p.user_id

\* "Users can join conversations they're part of"
PartInsertCheck(a, p, convs) ==
    a = p.user_id /\ IsPartyOf(a, p.conversation_id, convs)

\* an update policy of conversation_participants that admits every caller
PartUpdateUsing_Anyone(a, p) == TRUE

\* "Users can update their own participation"
PartUpdateUsing(a, p) == a = p.user_id

\* ----------------------------------------------------------- constraints
\* no uniqueness constraint on conversations
ConvUniqueOK_Unchecked(c, convs) == TRUE

\* UNIQUE(item_id, owner_id, renter_id), checked against every other row
ConvUniqueOK(c, convs) ==
    \A d \in convs : d.id # c.id =>
        ~(d.item_id = c.item_id /\ d.owner_id = c.owner_id /\ d.renter_id = c.renter_id)

\* no uniqueness constraint on conversation_participants
PartExists_Unchecked(cid, u, parts) == FALSE

\* UNIQUE(conversation_id, user_id)
PartExists(cid, u, parts) ==
    \E p \in parts : p.conversation_id = cid /\ p.user_id = u

\* item_id uuid REFERENCES clothing_items(id)
ItemExists(i, its) == \E it \in its : it.id = i

\* conversation_id uuid REFERENCES conversations(id)
ConvExists(cid, convs) == \E c \in convs : c.id = cid

\* gen_random_uuid(): an id no row has
FreshConvId == Cardinality(conversations) + 1
FreshMsgId  == Cardinality(messages) + 1

\* -------------------------------------------------------------- triggers
\* One INSERT INTO conversation_participants ... ON CONFLICT DO NOTHING issued
\* by the trigger function as caller a.  The insert policy is checked on the
\* proposed row first; a conflicting row is then skipped.
TrigAddParticipant(a, st, cid, u, convs) ==
    LET p == [conversation_id |-> cid, user_id |-> u, last_read_at |-> now]
    IN  IF ~st.ok THEN st
        ELSE IF ~PartInsertCheck(a, p, convs) THEN [ok |-> FALSE, parts |-> st.parts]
        ELSE IF PartExists(cid, u, st.parts) THEN st
        ELSE [ok |-> TRUE, parts |-> st.parts \cup {p}]

\* create_conversation_participants(): AFTER INSERT ON conversations
create_conversation_participants(a, new, convs, parts) ==
    LET s0 == [ok |-> TRUE, parts |-> parts]
        s1 == TrigAddParticipant(a, s0, new.id, new.owner_id, convs)
        s2 == TrigAddParticipant(a, s1, new.id, new.renter_id, convs)
    IN  s2

\* update_conversation_last_message(): AFTER INSERT ON messages.  The UPDATE
\* runs as the caller and touches the rows the update policy lets it see.
update_conversation_last_message(a, new, convs) ==
    { IF c.id = new.conversation_id /\ ConvUpdateUsing(a, c)
         THEN [c EXCEPT !.last_message_at = new.created_at,
                        !.updated_at = new.created_at]
         ELSE c : c \in convs }

\* ------------------------------------------------------------ statements
\* INSERT INTO conversations (item_id, owner_id, renter_id) as caller a:
\* the outcome [ok, id, convs, parts]
InsertConversationRow(a, i, o, r) ==
    LET new == [id |-> FreshConvId, item_id |-> i, owner_id |-> o, renter_id |-> r,
                last_message_at |-> now, updated_at |-> now]
        convs2 == conversations \cup {new}
        trig == create_conversation_participants(a, new, convs2, participants)
        fail == [ok |-> FALSE, id |-> Null, convs |-> conversations, parts |-> participants]
    IN  IF ~ItemExists(i, items) THEN fail
        ELSE IF ~ConvInsertCheck(a, new) THEN fail
        ELSE IF ~ConvUniqueOK(new, conversations) THEN fail
        ELSE IF ~trig.ok THEN fail
        ELSE [ok |-> TRUE, id |-> new.id, convs |-> convs2, parts |-> trig.parts]

\* INSERT INTO messages (conversation_id, sender_id, content) ... RETURNING as
\* caller a, in a transaction whose now() is ts: the outcome [ok, id, msgs, convs]
InsertMessageRow(a, cid, s, ts) ==
    LET new == [id |-> FreshMsgId, conversation_id |-> cid, sender_id |-> s,
                created_at |-> ts, content |-> "text"]
        fail == [ok |-> FALSE, id |-> Null, msgs |-> messages, convs |-> conversations]
    IN  IF ~ConvExists(cid, conversations) THEN fail
        ELSE IF ~MsgInsertCheck(a, new, conversations) THEN fail
        ELSE IF ~MsgSelectPolicy(a, new, conversations) THEN fail
        ELSE [ok |-> TRUE, id |-> new.id, msgs |-> messages \cup {new},
              convs |-> update_conversation_last_message(a, new, conversations)]

\* -------------------------------------------------------- client queries
\* ChatService.getUserConversations, the list query (chat.ts 63-79): the rows
\* the caller may select whose owner or renter is u and that have at least one
\* message (messages!inner)
ListedConversations(a, u) ==
    { c \in conversations :
        /\ ConvSelectPolicy(a, c)
        /\ (c.owner_id = u \/ c.renter_id = u)
        /\ \E m \in messages : m.conversation_id = c.id /\ MsgSelectPolicy(a, m, conversations) }

\* least recent activity first
OrderedDesc_Asc(s) ==
    \A k \in 1..(Len(s) - 1) : s[k].last_message_at <= s[k + 1].last_message_at

\* .order('last_message_at', { ascending: false })
OrderedDesc(s) ==
    \A k \in 1..(Len(s) - 1) : s[k].last_message_at >= s[k + 1].last_message_at

\* the orders in which the list query may deliver a set of rows (rows with equal
\* last_message_at come in either order)
Listings(rows) ==
    { s \in [1..Cardinality(rows) -> rows] :
        /\ \A c \in rows : \E k \in 1..Cardinality(rows) : s[k] = c
        /\ OrderedDesc(s) }

\* the unread count without the filter on the sender
UnreadCount_CountsOwn(a, u, cid) ==
    LET mine == { p \in participants :
                    /\ PartSelectPolicy(a, p)
                    /\ p.conversation_id = cid /\ p.user_id = u }
    IN  IF mine = {} THEN 0
        ELSE LET p == CHOOSE q \in mine : TRUE
             IN  Cardinality({ m \in messages :
                                 /\ MsgSelectPolicy(a, m, conversations)
                                 /\ m.conversation_id = cid
                                 /\ m.created_at > p.last_read_at })

\* ChatService.getUserConversations, unread count of one listed conversation
\* (chat.ts 98-115): the participant row the caller may select, then the count
\* of the messages the caller may select
UnreadCount(a, u, cid) ==
    LET mine == { p \in participants :
                    /\ PartSelectPolicy(a, p)
                    /\ p.conversation_id = cid /\ p.user_id = u }
    IN  IF mine = {} THEN 0
        ELSE LET p == CHOOSE q \in mine : TRUE
             IN  Cardinality({ m \in messages :
                                 /\ MsgSelectPolicy(a, m, conversations)
                                 /\ m.conversation_id = cid
                                 /\ m.sender_id # u
                                 /\ m.created_at > p.last_read_at })

\* ChatService.getOrCreateConversation, the select (chat.ts 19-30): the rows the
\* caller may select with this item, owner and renter
FindConversation(a, i, o, r) ==
    { c \in conversations :
        /\ ConvSelectPolicy(a, c)
        /\ c.item_id = i /\ c.owner_id = o /\ c.renter_id = r }

\* ---------------------------------------------------------------- state
NoReturn == [op |-> "none"]
GocIdle  == [pc |-> "idle"]
GucIdle  == [pc |-> "idle"]

\* selected and shown are the component's selectedConversation and messages
\* (the ids of the messages, in the order displayed); selecting holds the runs
\* of selectConversation in flight, marks the markAsRead calls of the live-feed
\* callback that have not reached the database
ModalClosed == [mounted |-> FALSE, user |-> Null, feed |-> Null, selecting |-> {},
                selected |-> Null, shown |-> << >>, marks |-> {}]
RentIdle    == [pc |-> "idle"]

\* one listed item, owned by u1; no rental; no channel, no modal, no request
ExtInit ==
    /\ items = Listed
    /\ rentals = {}
    /\ channels = {}
    /\ subscriptions = [c \in ConvIds |-> Null]
    /\ handlers = {}
    /\ modal = ModalClosed
    /\ rent = [s \in Sessions |-> RentIdle]

Init ==
    /\ now = 0
    /\ conversations = {}
    /\ messages = {}
    /\ participants = {}
    /\ goc = [s \in Sessions |-> GocIdle]
    /\ guc = GucIdle
    /\ returned = NoReturn
    /\ ExtInit

\* the clock advances
Tick ==
    /\ now < MaxTime
    /\ now' = now + 1
    /\ returned' = NoReturn
    /\ UNCHANGED <<db, goc, guc, ext>>

\* INSERT INTO conversations (item_id, owner_id, renter_id), as caller a
InsertConversation(a, i, o, r) ==
    /\ LET res == InsertConversationRow(a, i, o, r)
       IN  /\ res.ok => Cardinality(conversations) < MaxConv
           /\ conversations' = res.convs
           /\ participants' = res.parts
    /\ returned' = NoReturn
    /\ UNCHANGED <<now, messages, goc, guc, ext>>

\* UPDATE conversations SET owner_id = o, renter_id = r WHERE id = cid, as a
UpdateConversation(a, cid, o, r) ==
    /\ \E c \in conversations :
         /\ c.id = cid
         /\ LET new == [c EXCEPT !.owner_id = o, !.renter_id = r]
            IN  IF /\ ConvUpdateUsing(a, c)
                   /\ ConvUpdateUsing(a, new)
                   /\ ConvUniqueOK(new, conversations)
                   THEN conversations' = (conversations \ {c}) \cup {new}
                   ELSE conversations' = conversations
    /\ returned' = NoReturn
    /\ UNCHANGED <<now, messages, participants, goc, guc, ext>>

\* INSERT INTO conversation_participants (conversation_id, user_id), as a
InsertParticipant(a, cid, u) ==
    /\ LET p == [conversation_id |-> cid, user_id |-> u, last_read_at |-> now]
       IN  IF /\ ConvExists(cid, conversations)
              /\ PartInsertCheck(a, p, conversations)
              /\ ~PartExists(cid, u, participants)
              THEN participants' = participants \cup {p}
              ELSE participants' = participants
    /\ returned' = NoReturn
    /\ UNCHANGED <<now, conversations, messages, goc, guc, ext>>

\* UPDATE messages SET conversation_id = cid, content = body WHERE id = mid, as a
UpdateMessage(a, mid, cid, body) ==
    /\ \E m \in messages :
         /\ m.id = mid
         /\ LET new == [m EXCEPT !.conversation_id = cid, !.content = body]
            IN  IF /\ MsgUpdateAdmits(a, m, conversations)
                   /\ MsgUpdateAdmits(a, new, conversations)
                   /\ ConvExists(cid, conversations)
                   THEN messages' = (messages \ {m}) \cup {new}
                   ELSE messages' = messages
    /\ returned' = NoReturn
    /\ UNCHANGED <<now, conversations, participants, goc, guc, ext>>

\* ChatService.sendMessage(cid, s, ...) called by a.  The insert runs in a
\* transaction of its own whose now() is the moment ts it started, at or
\* before the moment the insert and its trigger take effect; the promise
\* resolves to the inserted row, or to null after an error.
SendMessage(a, cid, s, ts) ==
    /\ ts <= now
    /\ LET res == InsertMessageRow(a, cid, s, ts)
       IN  /\ res.ok => Cardinality(messages) < MaxMsg
           /\ messages' = res.msgs
           /\ conversations' = res.convs
           /\ returned' = [op |-> "sendMessage", caller |-> a, conv |-> cid,
                           sender |-> s, failed |-> FALSE, value |-> res.id]
    /\ UNCHANGED <<now, participants, goc, guc, ext>>

\* ChatService.markAsRead(cid, u) called by a: last_read_at := new Date(), the
\* reading t of the client's clock when the call was made
MarkAsRead(a, cid, u, t) ==
    /\ participants' =
         { IF p.conversation_id = cid /\ p.user_id = u /\ PartUpdateUsing(a, p)
              THEN [p EXCEPT !.last_read_at = t]
              ELSE p : p \in participants }
    /\ returned' = [op |-> "markAsRead", caller |-> a, conv |-> cid, user |-> u,
                    failed |-> FALSE]
    /\ UNCHANGED <<now, conversations, messages, goc, guc, ext>>

\* ChatService.getOrCreateConversation(i, o, r) called in session s by user a:
\* the select; an existing row is returned, otherwise the insert is issued
GocFind(s, a, i, o, r) ==
    /\ goc[s].pc = "idle"
    /\ LET found == FindConversation(a, i, o, r)
       IN  IF Cardinality(found) = 1
              THEN /\ returned' = [op |-> "getOrCreateConversation", caller |-> a,
                                   item |-> i, owner |-> o, renter |-> r,
                                   inserted |-> FALSE, failed |-> FALSE,
                                   value |-> (CHOOSE c \in found : TRUE).id]
                   /\ goc' = goc
              ELSE /\ returned' = NoReturn
                   /\ goc' = [goc EXCEPT ![s] = [pc |-> "insert", caller |-> a,
                                                 item |-> i, owner |-> o, renter |-> r,
                                                 failed |-> FALSE]]
    /\ UNCHANGED <<now, db, guc, ext>>

\* ChatService.getOrCreateConversation: the insert; an error is caught and
\* null returned
GocInsert(s) ==
    /\ goc[s].pc = "insert"
    /\ LET res == InsertConversationRow(goc[s].caller, goc[s].item,
                                        goc[s].owner, goc[s].renter)
       IN  /\ res.ok => Cardinality(conversations) < MaxConv
           /\ conversations' = res.convs
           /\ participants' = res.parts
           /\ returned' = [op |-> "getOrCreateConversation", caller |-> goc[s].caller,
                           item |-> goc[s].item, owner |-> goc[s].owner,
                           renter |-> goc[s].renter, inserted |-> TRUE,
                           failed |-> goc[s].failed, value |-> res.id]
    /\ goc' = [goc EXCEPT ![s] = GocIdle]
    /\ UNCHANGED <<now, messages, guc, ext>>

\* ChatService.getUserConversations(u) called by a: the list query
GucQuery(a, u) ==
    /\ guc.pc = "idle"
    /\ \E s \in Listings(ListedConversations(a, u)) :
         guc' = [pc |-> "listed", caller |-> a, user |-> u,
                 list |-> [k \in 1..Len(s) |->
                             [id |-> s[k].id, owner_id |-> s[k].owner_id,
                              renter_id |-> s[k].renter_id,
                              last_message_at |-> s[k].last_message_at]]]
    /\ returned' = NoReturn
    /\ UNCHANGED <<now, db, goc, ext>>

\* ChatService.getUserConversations: the enrichment of every listed row
\* (Promise.all), and the return of the list
GucEnrich ==
    /\ guc.pc = "listed"
    /\ returned' = [op |-> "getUserConversations", caller |-> guc.caller,
                    user |-> guc.user, failed |-> FALSE,
                    value |-> [k \in 1..Len(guc.list) |->
                                 [id |-> guc.list[k].id,
                                  owner_id |-> guc.list[k].owner_id,
                                  renter_id |-> guc.list[k].renter_id,
                                  last_message_at |-> guc.list[k].last_message_at,
                                  unread_count |->
                                      UnreadCount(guc.caller, guc.user, guc.list[k].id)]]]
    /\ guc' = GucIdle
    /\ UNCHANGED <<now, db, goc, ext>>

\* newest first
OrderedAsc_Desc(s) ==
    \A k \in 1..(Len(s) - 1) : s[k].created_at >= s[k + 1].created_at

\* .order('created_at', { ascending: true })
OrderedAsc(s) ==
    \A k \in 1..(Len(s) - 1) : s[k].created_at <= s[k + 1].created_at

\* the orders in which getMessages' query may deliver a set of rows
MessageListings(rows) ==
    { s \in [1..Cardinality(rows) -> rows] :
        /\ \A m \in rows : \E k \in 1..Cardinality(rows) : s[k] = m
        /\ OrderedAsc(s) }

\* ChatService.getMessages(cid) called by a: the messages of cid the caller may
\* select, oldest first
GetMessages(a, cid) ==
    /\ \E s \in MessageListings({ m \in messages :
                                    /\ MsgSelectPolicy(a, m, conversations)
                                    /\ m.conversation_id = cid }) :
         returned' = [op |-> "getMessages", caller |-> a, conv |-> cid,
                      failed |-> FALSE, value |-> s]
    /\ UNCHANGED <<now, db, goc, guc, ext>>

\* ------------------------------------------------------ failing requests
\* A request fails (network, storage): supabase-js resolves to { data: null,
\* error }.
\* getOrCreateConversation: the select fails; findError is set and the insert
\* is issued
GocFindFails(s, a, i, o, r) ==
    /\ goc[s].pc = "idle"
    /\ goc' = [goc EXCEPT ![s] = [pc |-> "insert", caller |-> a,
                                  item |-> i, owner |-> o, renter |-> r,
                                  failed |-> TRUE]]
    /\ returned' = NoReturn
    /\ UNCHANGED <<now, db, guc, ext>>

\* getOrCreateConversation: the insert fails; createError is thrown and caught
GocInsertFails(s) ==
    /\ goc[s].pc = "insert"
    /\ returned' = [op |-> "getOrCreateConversation", caller |-> goc[s].caller,
                    item |-> goc[s].item, owner |-> goc[s].owner,
                    renter |-> goc[s].renter, inserted |-> TRUE,
                    failed |-> TRUE, value |-> Null]
    /\ goc' = [goc EXCEPT ![s] = GocIdle]
    /\ UNCHANGED <<now, db, guc, ext>>

\* getUserConversations: the list query fails; the error is thrown and caught
GucQueryFails(a, u) ==
    /\ guc.pc = "idle"
    /\ returned' = [op |-> "getUserConversations", caller |-> a, user |-> u,
                    failed |-> TRUE, value |-> << >>]
    /\ UNCHANGED <<now, db, goc, guc, ext>>

\* getUserConversations: the participant or count request of listed row j
\* fails; its data is null, no error is looked at, and unreadCount stays 0
GucEnrichFails(j) ==
    /\ guc.pc = "listed"
    /\ j \in 1..Len(guc.list)
    /\ returned' = [op |-> "getUserConversations", caller |-> guc.caller,
                    user |-> guc.user, failed |-> TRUE,
                    value |-> [k \in 1..Len(guc.list) |->
                                 [id |-> guc.list[k].id,
                                  owner_id |-> guc.list[k].owner_id,
                                  renter_id |-> guc.list[k].renter_id,
                                  last_message_at |-> guc.list[k].last_message_at,
                                  unread_count |->
                                      IF k = j THEN 0
                                      ELSE UnreadCount(guc.caller, guc.user, guc.list[k].id)]]]
    /\ guc' = GucIdle
    /\ UNCHANGED <<now, db, goc, ext>>

\* getMessages: the query fails; the error is thrown and caught
GetMessagesFails(a, cid) ==
    /\ returned' = [op |-> "getMessages", caller |-> a, conv |-> cid,
                    failed |-> TRUE, value |-> << >>]
    /\ UNCHANGED <<now, db, goc, guc, ext>>

\* sendMessage: the insert fails; the error is thrown and caught
SendMessageFails(a, cid, s) ==
    /\ returned' = [op |-> "sendMessage", caller |-> a, conv |-> cid,
                    sender |-> s, failed |-> TRUE, value |-> Null]
    /\ UNCHANGED <<now, db, goc, guc, ext>>

\* markAsRead: the update fails; nothing is returned
MarkAsReadFails(a, cid, u) ==
    /\ returned' = [op |-> "markAsRead", caller |-> a, conv |-> cid, user |-> u,
                    failed |-> TRUE]
    /\ UNCHANGED <<now, db, goc, guc, ext>>

\* ------------------------------------------------------- rental request
\* RentItemModal.calculatePrice: the days between the dates (each date is
\* midnight UTC, so the quotient is whole and Math.ceil leaves it) times the
\* price per day, or 0
calculatePrice(start, end, price) ==
    LET days == end - start
    IN  IF days > 0 THEN days * price ELSE 0

\* "Users can insert rentals"
RentalInsertCheck(a, r) == a = r.renter_id

\* handleSubmit reaches onSuccess() when the rental insert raised no error;
\* the chat calls sit in a try/catch of their own
ReportsSuccess_NeedsChat(rental, conv, msg) == rental # Null /\ conv # Null

ReportsSuccess(rental, conv, msg) == rental # Null

\* what handleSubmit leaves behind when it ends
RentReturn(a, item, rental, conv, msg) ==
    [op |-> "rentalRequest", caller |-> a, item |-> item.id, owner |-> item.owner_id,
     rental |-> rental, conv |-> conv, msg |-> msg,
     onSuccess |-> ReportsSuccess(rental, conv, msg)]

\* RentItemModal.handleSubmit in session s by the signed-in user a, for the
\* listed item: the price check and the insert of the rental, which fails on
\* its policy, on the item's foreign key or because the request fails
RentSubmit(s, a, item, start, end, fail) ==
    /\ rent[s].pc = "idle"
    /\ LET total == calculatePrice(start, end, item.price_per_day)
           new == [id |-> Cardinality(rentals) + 1, item_id |-> item.id,
                   renter_id |-> a, owner_id |-> item.owner_id,
                   start_date |-> start, end_date |-> end,
                   total_price |-> total, status |-> "pending"]
           ok == /\ total > 0
                 /\ ~fail
                 /\ RentalInsertCheck(a, new)
                 /\ ItemExists(item.id, items)
                 /\ new.end_date >= new.start_date
       IN  IF ok
              THEN /\ Cardinality(rentals) < MaxRent
                   /\ rentals' = rentals \cup {new}
                   /\ rent' = [rent EXCEPT ![s] = [pc |-> "find", caller |-> a,
                                                   item |-> item, rental |-> new.id]]
                   /\ returned' = NoReturn
              ELSE /\ rentals' = rentals
                   /\ rent' = rent
                   /\ returned' = RentReturn(a, item, Null, Null, Null)
    /\ UNCHANGED <<now, db, goc, guc, items, feed>>

\* handleSubmit: getOrCreateConversation(item.id, item.owner_id, user.id), the
\* select; a failed request counts as nothing found
RentFind(s, fail) ==
    /\ rent[s].pc = "find"
    /\ LET found == FindConversation(rent[s].caller, rent[s].item.id,
                                     rent[s].item.owner_id, rent[s].caller)
       IN  rent' = [rent EXCEPT ![s] =
                      IF ~fail /\ Cardinality(found) = 1
                         THEN [rent[s] EXCEPT !.pc = "send"] @@
                              [conv |-> (CHOOSE c \in found : TRUE).id]
                         ELSE [rent[s] EXCEPT !.pc = "create"]]
    /\ returned' = NoReturn
    /\ UNCHANGED <<now, db, goc, guc, items, rentals, feed>>

\* handleSubmit: getOrCreateConversation, the insert; with a null conversation
\* no message is sent and handleSubmit ends
RentCreate(s, fail) ==
    /\ rent[s].pc = "create"
    /\ LET res == InsertConversationRow(rent[s].caller, rent[s].item.id,
                                        rent[s].item.owner_id, rent[s].caller)
       IN  IF ~fail /\ res.ok
              THEN /\ Cardinality(conversations) < MaxConv
                   /\ conversations' = res.convs
                   /\ participants' = res.parts
                   /\ rent' = [rent EXCEPT ![s] = [rent[s] EXCEPT !.pc = "send"] @@
                                                  [conv |-> res.id]]
                   /\ returned' = NoReturn
              ELSE /\ conversations' = conversations
                   /\ participants' = participants
                   /\ rent' = [rent EXCEPT ![s] = RentIdle]
                   /\ returned' = RentReturn(rent[s].caller, rent[s].item,
                                             rent[s].rental, Null, Null)
    /\ UNCHANGED <<now, messages, goc, guc, items, rentals, feed>>

\* handleSubmit: sendMessage(conversation.id, user.id, ..., 'rental_request'),
\* and the end of handleSubmit
RentSend(s, ts, fail) ==
    /\ rent[s].pc = "send"
    /\ ts <= now
    /\ LET res == InsertMessageRow(rent[s].caller, rent[s].conv, rent[s].caller, ts)
       IN  IF ~fail /\ res.ok
              THEN /\ Cardinality(messages) < MaxMsg
                   /\ messages' = res.msgs
                   /\ conversations' = res.convs
                   /\ returned' = RentReturn(rent[s].caller, rent[s].item,
                                             rent[s].rental, rent[s].conv, res.id)
              ELSE /\ messages' = messages
                   /\ conversations' = conversations
                   /\ returned' = RentReturn(rent[s].caller, rent[s].item,
                                             rent[s].rental, rent[s].conv, Null)
    /\ rent' = [rent EXCEPT ![s] = RentIdle]
    /\ UNCHANGED <<now, participants, goc, guc, items, rentals, feed>>

\* ------------------------------------------------------------- item card
\* an item card that takes nobody for the owner of its item
isOwner_Never(item, a) == FALSE

\* ItemCard: const isOwner = item.owner_id === currentUserId
isOwner(item, a) == item.owner_id = a

\* ItemCard.handleStartChat in session s, the card of item shown to the
\* signed-in user a: nothing for the owner; otherwise
\* getOrCreateConversation(item.id, item.owner_id, currentUserId) is called
StartChat(s, a, item) ==
    IF isOwner(item, a)
       THEN /\ goc[s].pc = "idle"
            /\ returned' = NoReturn
            /\ UNCHANGED <<now, db, goc, guc, ext>>
       ELSE GocFind(s, a, item.id, item.owner_id, a)

\* ItemCard's Rent button, rendered when the user is not the owner, opens
\* RentItemModal for the item; the form is submitted
RentClick(s, a, item, start, end) ==
    /\ ~isOwner(item, a)
    /\ RentSubmit(s, a, item, start, end, FALSE)

\* --------------------------------------------------------- item deletion
\* "Users can delete their own clothing items"
ItemDeletePolicy(a, it) == a = it.owner_id

\* the rows a delete of item i leaves without the cascade
CascadeItem_Keep(i, rows) == rows

\* ON DELETE CASCADE of item_id: the rows of a table that reference item i go
CascadeItem(i, rows) == { x \in rows : x.item_id # i }

\* ON DELETE CASCADE of conversation_id: the rows that reference a
\* conversation that is gone go
CascadeConversation(rows, convs) ==
    { x \in rows : ConvExists(x.conversation_id, convs) }

\* DELETE FROM clothing_items WHERE id = i, as caller a; the referential
\* actions run with the rights of the tables' owner
DeleteItem(a, i) ==
    /\ LET hit == { it \in items : it.id = i /\ ItemDeletePolicy(a, it) }
           convs2 == CascadeItem(i, conversations)
       IN  IF hit = {}
              THEN /\ UNCHANGED <<items, rentals, db>>
                   /\ returned' = [op |-> "deleteItem", item |-> i, deleted |-> FALSE,
                                   convs |-> 0, msgs |-> 0, parts |-> 0, rents |-> 0]
              ELSE /\ items' = items \ hit
                   /\ rentals' = CascadeItem(i, rentals)
                   /\ conversations' = convs2
                   /\ messages' = CascadeConversation(messages, convs2)
                   /\ participants' = CascadeConversation(participants, convs2)
                   /\ returned' =
                        [op |-> "deleteItem", item |-> i, deleted |-> TRUE,
                         convs |-> Cardinality(conversations \ convs2),
                         msgs |-> Cardinality(messages \ CascadeConversation(messages, convs2)),
                         parts |-> Cardinality(participants \ CascadeConversation(participants, convs2)),
                         rents |-> Cardinality(rentals \ CascadeItem(i, rentals))]
    /\ UNCHANGED <<now, goc, guc, feed, rent>>

\* ------------------------------------------------------------ live feed
\* supabase.channel(topic).on(...).subscribe(): a new channel of the given kind
\* ("messages" of a conversation, "conversations" of a user) opened by user a.
\* The client library is not part of the repository: a channel already open on
\* the same topic is either kept ("kept") or left by the library ("left").
\* by is who opened it, mounted whether ChatModal was mounted at that moment;
\* from is the first message whose insert it has yet to see.
OpenChannel(a, kind, key, dup, by, mounted) ==
    LET new == [id |-> Cardinality(channels) + 1, kind |-> kind, key |-> key,
                user |-> a, open |-> TRUE, cancelled |-> FALSE,
                from |-> FreshMsgId, by |-> by, mounted |-> mounted]
    IN  { IF dup = "left" /\ ch.kind = kind /\ ch.key = key
             THEN [ch EXCEPT !.open = FALSE] ELSE ch : ch \in channels } \cup {new}

\* subscription.unsubscribe() on the channels ids
Unsubscribe(chans, ids) ==
    { IF ch.id \in ids THEN [ch EXCEPT !.open = FALSE] ELSE ch : ch \in chans }

\* ChatService.subscribeToMessages(cid, cb) called by user a: the channel is
\* opened and stored in the map under cid
SubscribeToMessages(a, cid, dup) ==
    /\ Cardinality(channels) < MaxChan
    /\ channels' = OpenChannel(a, "messages", cid, dup, "caller", modal.mounted)
    /\ subscriptions' = [subscriptions EXCEPT ![cid] = Cardinality(channels) + 1]
    /\ returned' = NoReturn
    /\ UNCHANGED <<now, db, goc, guc, items, rentals, handlers, modal, rent>>

\* ChatService.subscribeToConversations(u, cb) called by user a: the channel is
\* opened; it is not stored in the map
SubscribeToConversations(a, u, dup) ==
    /\ Cardinality(channels) < MaxChan
    /\ channels' = OpenChannel(a, "conversations", u, dup, "caller", modal.mounted)
    /\ returned' = NoReturn
    /\ UNCHANGED <<now, db, goc, guc, items, rentals, subscriptions, handlers, modal, rent>>

\* the cancellation handle of channel id is invoked: unsubscribe, and for a
\* messages channel subscriptions.delete(conversationId)
Cancel(id) ==
    /\ \E ch \in channels :
         /\ ch.id = id
         /\ channels' = { IF c.id = id THEN [c EXCEPT !.open = FALSE, !.cancelled = TRUE]
                                       ELSE c : c \in channels }
         /\ subscriptions' = IF ch.kind = "messages"
                                THEN [subscriptions EXCEPT ![ch.key] = Null]
                                ELSE subscriptions
    /\ returned' = NoReturn
    /\ UNCHANGED <<now, db, goc, guc, items, rentals, handlers, modal, rent>>

\* a channel that is sent the inserts of every conversation
ChannelFilter_None(ch, m) == TRUE

\* filter: `conversation_id=eq.${conversationId}`
ChannelFilter(ch, m) == m.conversation_id = ch.key

\* the INSERT event of message mid, the next one the open messages channel id
\* is due, reaches it: the handler starts and issues its re-fetch of the message
Deliver(id, mid) ==
    /\ \E ch \in channels : \E m \in messages :
         /\ ch.id = id /\ m.id = mid
         /\ ch.open /\ ch.kind = "messages"
         /\ ChannelFilter(ch, m) /\ m.id >= ch.from
         /\ MsgSelectPolicy(ch.user, m, conversations)
         /\ ~\E m2 \in messages :
               /\ ChannelFilter(ch, m2) /\ m2.id >= ch.from /\ m2.id < mid
               /\ MsgSelectPolicy(ch.user, m2, conversations)
         /\ channels' = (channels \ {ch}) \cup { [ch EXCEPT !.from = mid + 1] }
    /\ handlers' = handlers \cup { [chan |-> id, msg |-> mid] }
    /\ returned' = NoReturn
    /\ UNCHANGED <<now, db, goc, guc, items, rentals, subscriptions, modal, rent>>

\* the component instance that opened channel ch is still the one on screen:
\* its state setters act; those of an instance torn down do nothing
OnScreen(ch) ==
    ch.by = "ChatModal" /\ ch.mounted /\ modal.mounted /\ ch.id > modal.feed

\* the re-fetch of a handler completes: if (data) callback(data).  The callback
\* ChatModal passes appends the message to the list shown and, when the message
\* is from someone else, calls markAsRead, which reads the client's clock; the
\* call is not awaited.
HandlerFetch(id, mid) ==
    /\ [chan |-> id, msg |-> mid] \in handlers
    /\ handlers' = handlers \ { [chan |-> id, msg |-> mid] }
    /\ \E ch \in channels :
         /\ ch.id = id
         /\ LET data == { m \in messages :
                            m.id = mid /\ MsgSelectPolicy(ch.user, m, conversations) }
                called == data # {} /\ ch.by = "ChatModal"
            IN  /\ returned' = IF data = {} THEN NoReturn
                                ELSE [op |-> "callback", chan |-> id, msg |-> mid,
                                      cancelled |-> ch.cancelled, open |-> ch.open]
                /\ modal' =
                      [modal EXCEPT
                         !.shown = IF called /\ OnScreen(ch) THEN Append(@, mid) ELSE @,
                         !.marks = IF called /\ (\E m \in data : m.sender_id # ch.user)
                                      THEN @ \cup { [conv |-> ch.key, user |-> ch.user,
                                                     t |-> now] }
                                      ELSE @]
    /\ UNCHANGED <<now, db, goc, guc, items, rentals, channels, subscriptions, rent>>

\* a markAsRead call of the live-feed callback reaches the database: the
\* UPDATE carries the time the call read, t
MarkLands(c, u, t) ==
    /\ [conv |-> c, user |-> u, t |-> t] \in modal.marks
    /\ participants' =
         { IF p.conversation_id = c /\ p.user_id = u /\ PartUpdateUsing(u, p)
              THEN [p EXCEPT !.last_read_at = t]
              ELSE p : p \in participants }
    /\ modal' = [modal EXCEPT !.marks = @ \ { [conv |-> c, user |-> u, t |-> t] }]
    /\ returned' = [op |-> "markAsRead", caller |-> u, conv |-> c, user |-> u,
                    failed |-> FALSE]
    /\ UNCHANGED <<now, conversations, messages, goc, guc, items, rentals,
                   channels, subscriptions, handlers, rent>>

\* the channels the map holds
Subscribed == { subscriptions[c] : c \in ConvIds } \ {Null}

\* ChatService.cleanup(): every channel in the map is unsubscribed, the map is
\* cleared
Cleanup ==
    /\ channels' = Unsubscribe(channels, Subscribed)
    /\ subscriptions' = [c \in ConvIds |-> Null]
    /\ returned' = [op |-> "cleanup"]
    /\ UNCHANGED <<now, db, goc, guc, items, rentals, handlers, modal, rent>>

\* ------------------------------------------------------------ ChatModal
\* ChatModal mounts for user a: a new instance with nothing selected and
\* nothing shown; the first effect subscribes to the user's conversations and
\* keeps the handle
ModalMount(a, dup) ==
    /\ ~modal.mounted
    /\ Cardinality(channels) < MaxChan
    /\ channels' = OpenChannel(a, "conversations", a, dup, "ChatModal", TRUE)
    /\ modal' = [modal EXCEPT !.mounted = TRUE, !.user = a,
                              !.feed = Cardinality(channels) + 1,
                              !.selected = Null, !.shown = << >>]
    /\ returned' = NoReturn
    /\ UNCHANGED <<now, db, goc, guc, items, rentals, subscriptions, handlers, rent>>

\* a run of selectConversation belongs to the instance on screen
Alive(sel) == modal.mounted /\ modal.feed = sel.feed

\* ChatModal.selectConversation(c), by a click or by the effect that re-runs
\* when the conversation list changes: setSelectedConversation, setMessages([])
\* and the getMessages request
ModalSelect(c) ==
    /\ modal.mounted
    /\ \E cv \in conversations : cv.id = c /\ ConvSelectPolicy(modal.user, cv)
    /\ modal' = [modal EXCEPT
                   !.selected = c, !.shown = << >>,
                   !.selecting = @ \cup { [conv |-> c, user |-> modal.user,
                                           feed |-> modal.feed, pc |-> "fetch",
                                           t |-> Null] }]
    /\ returned' = NoReturn
    /\ UNCHANGED <<now, db, goc, guc, items, rentals,
                   channels, subscriptions, handlers, rent>>

\* selectConversation, getMessages has answered: setMessages(msgs), whatever is
\* selected by now, and the markAsRead call, which reads the client's clock
ModalSelectFetched(c) ==
    /\ \E sel \in modal.selecting :
         /\ sel.conv = c /\ sel.pc = "fetch"
         /\ \E s \in MessageListings({ m \in messages :
                                         /\ MsgSelectPolicy(sel.user, m, conversations)
                                         /\ m.conversation_id = c }) :
              modal' = [modal EXCEPT
                          !.shown = IF Alive(sel) THEN [k \in 1..Len(s) |-> s[k].id]
                                                  ELSE @,
                          !.selecting = (@ \ {sel}) \cup
                                        { [sel EXCEPT !.pc = "mark", !.t = now] }]
    /\ returned' = NoReturn
    /\ UNCHANGED <<now, db, goc, guc, items, rentals,
                   channels, subscriptions, handlers, rent>>

\* selectConversation, markAsRead has answered: its UPDATE carried the time
\* the call read; then subscribeToMessages, whose handle is dropped
ModalSelectSubscribe(c, dup) ==
    /\ \E sel \in modal.selecting :
         /\ sel.conv = c /\ sel.pc = "mark"
         /\ Cardinality(channels) < MaxChan
         /\ participants' =
              { IF p.conversation_id = c /\ p.user_id = sel.user
                   /\ PartUpdateUsing(sel.user, p)
                   THEN [p EXCEPT !.last_read_at = sel.t]
                   ELSE p : p \in participants }
         /\ channels' = OpenChannel(sel.user, "messages", c, dup, "ChatModal", Alive(sel))
         /\ subscriptions' = [subscriptions EXCEPT ![c] = Cardinality(channels) + 1]
         /\ modal' = [modal EXCEPT !.selecting = @ \ {sel}]
    /\ returned' = NoReturn
    /\ UNCHANGED <<now, conversations, messages, goc, guc, items, rentals, handlers, rent>>

\* ChatModal is torn down: the first effect's teardown invokes the handle of
\* the conversations channel and chatService.cleanup()
ModalUnmount ==
    /\ modal.mounted
    /\ channels' = Unsubscribe({ IF ch.id = modal.feed THEN [ch EXCEPT !.cancelled = TRUE]
                                                        ELSE ch : ch \in channels },
                               {modal.feed} \cup Subscribed)
    /\ subscriptions' = [c \in ConvIds |-> Null]
    /\ modal' = [modal EXCEPT !.mounted = FALSE, !.feed = Null,
                              !.selected = Null, !.shown = << >>]
    /\ returned' = [op |-> "unmount"]
    /\ UNCHANGED <<now, db, goc, guc, items, rentals, handlers, rent>>

\* ------------------------------------------------------- specifications
\* readings of the client's clock, and start times of transactions
ClientTimes == 0..MaxTime
TxnStarts   == 0..MaxTime
\* what the library does with a channel already open on the topic
Dups == {"kept", "left"}
\* the user signed in to the client whose live feed is followed
Viewers == {"u2"}
\* the session whose requests may fail
Flaky == {"s1"}
\* the users who write to the viewer while the chat view is followed
Writers == Users \ Viewers

\* The tables under every statement the policies admit.  No predicate of a
\* policy or constraint reads a timestamp, so the clock stands still here.
Next ==
    \/ \E a \in Users, i \in Items, o \in Users, r \in Users : InsertConversation(a, i, o, r)
    \/ \E a \in Users, c \in ConvIds, o \in Users, r \in Users : UpdateConversation(a, c, o, r)
    \/ \E a \in Users, c \in ConvIds, u \in Users : InsertParticipant(a, c, u)
    \/ \E a \in Users, m \in MsgIds, c \in ConvIds, b \in Contents : UpdateMessage(a, m, c, b)
    \/ \E a \in Users, c \in ConvIds, s \in Users, ts \in TxnStarts : SendMessage(a, c, s, ts)

Spec == Init /\ [][Next]_vars

\* Sending messages while the clock runs
NextSend ==
    \/ Tick
    \/ \E a \in Users, i \in Items, o \in Users, r \in Users : InsertConversation(a, i, o, r)
    \/ \E a \in Users, c \in ConvIds, o \in Users, r \in Users : UpdateConversation(a, c, o, r)
    \/ \E a \in Users, c \in ConvIds, s \in Users, ts \in TxnStarts : SendMessage(a, c, s, ts)

SpecSend == Init /\ [][NextSend]_vars

\* getOrCreateConversation called by several users at once
NextGoc ==
    \/ \E s \in Sessions, a \in Users, i \in Items, o \in Users, r \in Users :
          GocFind(s, a, i, o, r)
    \/ \E s \in Sessions : GocInsert(s)
    \/ \E a \in Users, c \in ConvIds, o \in Users, r \in Users : UpdateConversation(a, c, o, r)
    \/ \E a \in Users, c \in ConvIds, u \in Users : InsertParticipant(a, c, u)

SpecGoc == Init /\ [][NextGoc]_vars

\* Two conversations as the statements above leave them: conversation 1 was
\* inserted by u1 for itself and then given the renter u2, conversation 2 was
\* inserted by u2 for itself.  u2 has not joined conversation 1 yet.
InitChat ==
    /\ now = 0
    /\ conversations =
         { [id |-> 1, item_id |-> "i1", owner_id |-> "u1", renter_id |-> "u2",
            last_message_at |-> 0, updated_at |-> 0],
           [id |-> 2, item_id |-> "i1", owner_id |-> "u2", renter_id |-> "u2",
            last_message_at |-> 0, updated_at |-> 0] }
    /\ messages = {}
    /\ participants =
         { [conversation_id |-> 1, user_id |-> "u1", last_read_at |-> 0],
           [conversation_id |-> 2, user_id |-> "u2", last_read_at |-> 0] }
    /\ goc = [s \in Sessions |-> GocIdle]
    /\ guc = GucIdle
    /\ returned = NoReturn
    /\ ExtInit

\* Reading: messages are sent and read while the clock runs
NextRead ==
    \/ Tick
    \/ \E a \in Users, c \in ConvIds, u \in Users : InsertParticipant(a, c, u)
    \/ \E a \in Users, c \in ConvIds, s \in Users, ts \in TxnStarts : SendMessage(a, c, s, ts)
    \/ \E a \in Users, c \in ConvIds, u \in Users, t \in ClientTimes : MarkAsRead(a, c, u, t)
    \/ \E a \in Users, u \in Users : GucQuery(a, u)
    \/ GucEnrich
    \/ \E a \in Users, c \in ConvIds : GetMessages(a, c)

SpecRead == InitChat /\ [][NextRead]_vars

\* The ChatService operations of two sessions, each request of which may fail
NextFail ==
    \/ \E s \in Flaky, a \in Users, i \in Items, o \in Users, r \in Users :
          GocFind(s, a, i, o, r) \/ GocFindFails(s, a, i, o, r)
    \/ \E s \in Flaky : GocInsert(s) \/ GocInsertFails(s)
    \/ \E a \in Users, u \in Users : GucQuery(a, u) \/ GucQueryFails(a, u)
    \/ GucEnrich
    \/ \E j \in ConvIds : GucEnrichFails(j)
    \/ \E a \in Users, c \in ConvIds : GetMessages(a, c) \/ GetMessagesFails(a, c)
    \/ \E a \in Users, c \in ConvIds, s \in Users :
          SendMessage(a, c, s, now) \/ SendMessageFails(a, c, s)
    \/ \E a \in Users, c \in ConvIds, u \in Users :
          MarkAsRead(a, c, u, now) \/ MarkAsReadFails(a, c, u)

SpecFail == Init /\ [][NextFail]_vars

\* Rental requests from two sessions, the conversation lists they lead to,
\* and the deletion of the item
NextRent ==
    \/ Tick
    \/ \E s \in Sessions, a \in Users, it \in Listed, d1 \in Days, d2 \in Days, f \in BOOLEAN :
          RentSubmit(s, a, it, d1, d2, f)
    \/ \E s \in Sessions, f \in BOOLEAN : RentFind(s, f)
    \/ \E s \in Sessions, f \in BOOLEAN : RentCreate(s, f)
    \/ \E s \in Sessions, ts \in TxnStarts, f \in BOOLEAN : RentSend(s, ts, f)
    \/ \E a \in Users, u \in Users : GucQuery(a, u)
    \/ GucEnrich
    \/ \E a \in Users, i \in Items : DeleteItem(a, i)

SpecRent == Init /\ [][NextRent]_vars

\* Rental requests none of whose requests fails in transit, and the
\* conversation lists they lead to
NextRentOk ==
    \/ Tick
    \/ \E s \in Sessions, a \in Users, it \in Listed, d1 \in Days, d2 \in Days :
          RentSubmit(s, a, it, d1, d2, FALSE)
    \/ \E s \in Sessions : RentFind(s, FALSE)
    \/ \E s \in Sessions : RentCreate(s, FALSE)
    \/ \E s \in Sessions, ts \in TxnStarts : RentSend(s, ts, FALSE)
    \/ \E a \in Users, u \in Users : GucQuery(a, u)
    \/ GucEnrich

SpecRentOk == Init /\ [][NextRentOk]_vars

\* The live feed of one client over the two conversations
NextFeed ==
    \/ \E a \in Users, c \in ConvIds : SendMessage(a, c, a, now)
    \/ \E a \in Viewers, c \in ConvIds, d \in Dups : SubscribeToMessages(a, c, d)
    \/ \E a \in Viewers, d \in Dups : SubscribeToConversations(a, a, d)
    \/ \E id \in ChanIds : Cancel(id)
    \/ \E id \in ChanIds, m \in MsgIds : Deliver(id, m)
    \/ \E id \in ChanIds, m \in MsgIds : HandlerFetch(id, m)
    \/ Cleanup

SpecFeed == InitChat /\ [][NextFeed]_vars

\* The chat view opened, used and closed, while messages come in
NextModal ==
    \/ \E a \in Viewers, d \in Dups : ModalMount(a, d)
    \/ \E c \in ConvIds : ModalSelect(c)
    \/ \E c \in ConvIds : ModalSelectFetched(c)
    \/ \E c \in ConvIds, d \in Dups : ModalSelectSubscribe(c, d)
    \/ ModalUnmount
    \/ \E a \in Writers, c \in ConvIds : SendMessage(a, c, a, now)
    \/ \E id \in ChanIds, m \in MsgIds : Deliver(id, m)
    \/ \E id \in ChanIds, m \in MsgIds : HandlerFetch(id, m)
    \/ \E c \in ConvIds, u \in Viewers, t \in ClientTimes : MarkLands(c, u, t)

SpecModal == InitChat /\ [][NextModal]_vars

\* The chat view marks conversations read while the clock runs and messages
\* come in
NextMark ==
    \/ Tick
    \/ \E a \in Viewers, d \in Dups : ModalMount(a, d)
    \/ \E c \in ConvIds : ModalSelect(c)
    \/ \E c \in ConvIds : ModalSelectFetched(c)
    \/ \E c \in ConvIds, d \in Dups : ModalSelectSubscribe(c, d)
    \/ \E a \in Writers, c \in ConvIds : SendMessage(a, c, a, now)
    \/ \E id \in ChanIds, m \in MsgIds : Deliver(id, m)
    \/ \E id \in ChanIds, m \in MsgIds : HandlerFetch(id, m)
    \/ \E c \in ConvIds, u \in Viewers, t \in ClientTimes : MarkLands(c, u, t)

SpecMark == InitChat /\ [][NextMark]_vars

\* The item cards: the chat button and the rental request form, used from two
\* sessions by any user.  No conversation exists at the start and none can be
\* made for an owner and another renter, so handleSubmit never gets to its
\* sendMessage here.
NextCard ==
    \/ \E s \in Sessions, a \in Users, it \in Listed : StartChat(s, a, it)
    \/ \E s \in Sessions : GocInsert(s)
    \/ \E s \in Sessions, a \in Users, it \in Listed, d1 \in Days, d2 \in Days :
          RentClick(s, a, it, d1, d2)
    \/ \E s \in Sessions : RentFind(s, FALSE)
    \/ \E s \in Sessions : RentCreate(s, FALSE)

SpecCard == Init /\ [][NextCard]_vars

\* Conversations are created and joined while the clock runs
NextJoin ==
    \/ Tick
    \/ \E s \in Sessions, a \in Users, i \in Items, o \in Users, r \in Users :
          GocFind(s, a, i, o, r)
    \/ \E s \in Sessions : GocInsert(s)
    \/ \E a \in Users, c \in ConvIds, u \in Users : InsertParticipant(a, c, u)

SpecJoin == Init /\ [][NextJoin]_vars

\* ---------------------------------------------------------------- claims
\* the conversation rows of one (item, owner, renter) triple
RowsOf(i, o, r) ==
    { c \in conversations : c.item_id = i /\ c.owner_id = o /\ c.renter_id = r }

\* the users that have a participant row for conversation cid
ParticipantUsers(cid) ==
    { p.user_id : p \in { q \in participants : q.conversation_id = cid } }

\* C1: a getOrCreateConversation call made by the owner or the renter of its
\* triple that returns while a row for the triple is persisted returns that
\* row's id, also when another call inserted the row between this call's
\* select and its insert; and the triple never has two rows.
C1_SameRowReturned ==
    (returned.op = "getOrCreateConversation"
        /\ returned.caller \in {returned.owner, returned.renter})
    => LET rows == RowsOf(returned.item, returned.owner, returned.renter)
       IN  /\ Cardinality(rows) <= 1
           /\ \A c \in rows : returned.value = c.id

\* C2: no two conversation rows have the same (item_id, owner_id, renter_id).
C2_UniqueTriple ==
    \A c \in conversations : \A d \in conversations :
        (c.item_id = d.item_id /\ c.owner_id = d.owner_id /\ c.renter_id = d.renter_id)
            => c = d

\* C2 witness: a second insert of a triple that has a row was made and refused,
\* and a second conversation with another triple exists.
C2_Witness ==
    /\ returned.op = "getOrCreateConversation"
    /\ returned.inserted
    /\ returned.value = Null
    /\ RowsOf(returned.item, returned.owner, returned.renter) # {}
    /\ Cardinality(conversations) = 2

\* C3: an insert of a conversation by its owner or its renter, for a triple
\* that has no row, succeeds, and the new conversation then has participant
\* rows for exactly its owner and its renter.
C3_InsertCreatesBothParticipants ==
    (returned.op = "getOrCreateConversation"
        /\ returned.inserted
        /\ returned.caller \in {returned.owner, returned.renter})
    => /\ RowsOf(returned.item, returned.owner, returned.renter) # {}
       /\ returned.value # Null =>
             ParticipantUsers(returned.value) = {returned.owner, returned.renter}

\* C4: every conversation has participant rows for exactly its owner and its
\* renter.
C4_ParticipantsAreOwnerAndRenter ==
    \A c \in conversations : ParticipantUsers(c.id) = {c.owner_id, c.renter_id}

\* the messages of conversation cid
MessagesOf(cid) == { m \in messages : m.conversation_id = cid }

\* C5: when an insert of a message into C has completed, C.last_message_at and
\* C.updated_at equal the greatest created_at among the messages of C.
C5_LastMessageAtIsGreatest ==
    (returned.op = "sendMessage" /\ returned.value # Null)
    => \A c \in conversations : c.id = returned.conv =>
           /\ \A m \in MessagesOf(c.id) : m.created_at <= c.last_message_at
           /\ \E m \in MessagesOf(c.id) : m.created_at = c.last_message_at
           /\ c.updated_at = c.last_message_at

\* C6: a user x who is neither owner nor renter of conversation c reads neither
\* c nor a message of c, and no statement x issues to update c, to insert a
\* message into c, to update a message of c, or to insert a conversation of
\* which x is neither owner nor renter, writes anything.
C6_OutsiderIsolation ==
    [][ /\ \A x \in Users : \A c \in conversations :
             (x # c.owner_id /\ x # c.renter_id) =>
                /\ ~ConvSelectPolicy(x, c)
                /\ \A m \in MessagesOf(c.id) : ~MsgSelectPolicy(x, m, conversations)
                /\ (\E o \in Users, r \in Users : UpdateConversation(x, c.id, o, r))
                      => conversations' = conversations
                /\ (\E s \in Users, ts \in TxnStarts : SendMessage(x, c.id, s, ts))
                      => messages' = messages
                /\ (\E m \in MessagesOf(c.id), c2 \in ConvIds, b \in Contents :
                        UpdateMessage(x, m.id, c2, b))
                      => messages' = messages
        /\ \A x \in Users, i \in Items, o \in Users, r \in Users :
             (x # o /\ x # r /\ InsertConversation(x, i, o, r))
                => conversations' = conversations
      ]_vars

\* C6 witness: a conversation holds a message whose sender is no longer its
\* owner or renter, so that the update policy of messages alone would admit
\* the sender.
C6_Witness ==
    \E c \in conversations : \E m \in MessagesOf(c.id) :
        m.sender_id # c.owner_id /\ m.sender_id # c.renter_id

\* C7: sendMessage persists a message only when the sender is the caller, the
\* conversation exists and the caller is its owner or renter; otherwise no
\* message row is written, no conversation row changes and null is returned.
C7_SendOnlyByParticipantAsSelf ==
    [][ returned'.op = "sendMessage" =>
          LET a  == returned'.caller
              ok == /\ returned'.sender = a
                    /\ \E c \in conversations :
                          c.id = returned'.conv /\ (c.owner_id = a \/ c.renter_id = a)
          IN  /\ ~ok => /\ messages' = messages
                        /\ conversations' = conversations
                        /\ returned'.value = Null
              /\ messages' # messages => ok
      ]_vars

\* C7 witness: a participant's send under another user's sender_id was refused
\* while the conversation already held a message.
C7_Witness ==
    /\ returned.op = "sendMessage"
    /\ returned.value = Null
    /\ returned.sender # returned.caller
    /\ IsPartyOf(returned.caller, returned.conv, conversations)
    /\ MessagesOf(returned.conv) # {}
    /\ now > 0

\* C8: when markAsRead(C, U) called by participant U has completed, the unread
\* count getUserConversations(U) computes for C is 0.
C8_ReadMeansNoUnread ==
    (returned.op = "markAsRead"
        /\ returned.caller = returned.user
        /\ IsPartyOf(returned.user, returned.conv, conversations))
    => UnreadCount(returned.user, returned.user, returned.conv) = 0

\* C9: in the list getUserConversations(U) returns to U, the unread_count of a
\* conversation is the number of its messages sent by someone else and created
\* strictly after the last_read_at of U's participant row (none, when U has no
\* such row).
C9_UnreadCountFormula ==
    (returned.op = "getUserConversations" /\ returned.caller = returned.user)
    => \A k \in DOMAIN returned.value :
          returned.value[k].unread_count =
              Cardinality({ m \in messages :
                  /\ m.conversation_id = returned.value[k].id
                  /\ m.sender_id # returned.user
                  /\ \E p \in participants :
                        /\ p.conversation_id = returned.value[k].id
                        /\ p.user_id = returned.user
                        /\ m.created_at > p.last_read_at })

\* C9 witness: a returned conversation counts one unread message although it
\* holds two messages newer than the reader's last_read_at: the other one was
\* sent by the reader.
C9_Witness ==
    /\ returned.op = "getUserConversations"
    /\ returned.caller = returned.user
    /\ \E k \in DOMAIN returned.value :
          /\ returned.value[k].unread_count = 1
          /\ \E p \in participants :
                /\ p.conversation_id = returned.value[k].id
                /\ p.user_id = returned.user
                /\ Cardinality({ m \in MessagesOf(p.conversation_id) :
                                    m.created_at > p.last_read_at }) = 2

\* C10: the list getUserConversations(U) returns to U holds exactly the
\* conversations whose owner or renter is U, with or without messages.
C10_AllOwnConversationsListed ==
    (returned.op = "getUserConversations" /\ returned.caller = returned.user)
    => { returned.value[k].id : k \in DOMAIN returned.value } =
       { c.id : c \in { d \in conversations :
                           d.owner_id = returned.user \/ d.renter_id = returned.user } }

\* C11: the callback of a messages channel is never invoked once the channel's
\* cancellation handle has been invoked, also when the insert event came in
\* before the cancellation; and a cancelled channel is not open.
C11_NoCallbackAfterCancel ==
    /\ returned.op = "callback" => ~returned.cancelled
    /\ \A ch \in channels : ch.cancelled => ~ch.open

\* C12: when cleanup() has returned, no channel opened through the ChatService
\* is subscribed, whichever method opened it.
C12_CleanupReleasesAll ==
    returned.op = "cleanup" => \A ch \in channels : ~ch.open

\* C13: once ChatModal is torn down, every channel it opened while it was
\* mounted has been unsubscribed.
C13_TeardownCancelsAll ==
    ~modal.mounted =>
        \A ch \in channels : (ch.by = "ChatModal" /\ ch.mounted) => ~ch.open

\* C14: a ChatService operation one of whose requests failed returns the null
\* or empty result: null from getOrCreateConversation and sendMessage, the
\* empty list from getUserConversations and getMessages.
C14_FailureYieldsEmpty ==
    (returned.op \in {"getOrCreateConversation", "sendMessage"} /\ returned.failed
        => returned.value = Null)
    /\ (returned.op \in {"getUserConversations", "getMessages"} /\ returned.failed
        => returned.value = << >>)

\* C15: handleSubmit reports success exactly when its rental insert succeeded,
\* whatever getOrCreateConversation and sendMessage came to; its chat steps
\* leave the rentals alone; and when the rental insert fails, the step writes
\* no conversation and no message.
C15_RentalIndependentOfChat ==
    [][ /\ returned'.op = "rentalRequest" =>
              /\ returned'.onSuccess <=> returned'.rental # Null
              /\ returned'.rental = Null =>
                    /\ conversations' = conversations
                    /\ messages' = messages
                    /\ rentals' = rentals
        /\ \A s \in Sessions :
              (rent[s].pc # "idle" /\ rent'[s] # rent[s]) => rentals' = rentals
      ]_vars

\* C15 witness: a request whose rental was inserted and is persisted ended with
\* no conversation, and reported success.
C15_Witness ==
    /\ returned.op = "rentalRequest"
    /\ returned.onSuccess
    /\ returned.conv = Null
    /\ \E r \in rentals : r.id = returned.rental /\ r.status = "pending"

\* C18: a rental from day 1 to day 3 at 100 per day has total_price 200 and
\* status pending; and when the one rental request made so far, by renter R for
\* the item of another user O, has ended, the list getUserConversations gives
\* O holds the conversation of O and R with unread_count 1, and the list it
\* gives R holds it with unread_count 0.
C18_RequestShowsUnreadToOwner ==
    /\ \A r \in rentals :
          (r.start_date = 1 /\ r.end_date = 3) =>
              (r.total_price = 200 /\ r.status = "pending")
    /\ \A r \in rentals :
          ( /\ rentals = {r}
            /\ r.renter_id # r.owner_id
            /\ \A s \in Sessions : rent[s].pc = "idle"
            /\ returned.op = "getUserConversations"
            /\ returned.caller = returned.user
            /\ returned.user \in {r.owner_id, r.renter_id} )
          => \E k \in DOMAIN returned.value :
                /\ returned.value[k].owner_id = r.owner_id
                /\ returned.value[k].renter_id = r.renter_id
                /\ returned.value[k].unread_count =
                      (IF returned.user = r.owner_id THEN 1 ELSE 0)

\* C16: getMessages(C) returns every message of C the caller may read, each
\* once, in non-decreasing created_at order.
C16_MessagesOldestFirst ==
    returned.op = "getMessages" =>
        /\ \A j \in DOMAIN returned.value : \A k \in DOMAIN returned.value :
              j < k => /\ returned.value[j].created_at <= returned.value[k].created_at
                       /\ returned.value[j].id # returned.value[k].id
        /\ { returned.value[k] : k \in DOMAIN returned.value } =
           { m \in MessagesOf(returned.conv) :
                 MsgSelectPolicy(returned.caller, m, conversations) }

\* C16 witness: getMessages returned two messages with different created_at.
C16_Witness ==
    /\ returned.op = "getMessages"
    /\ Len(returned.value) = 2
    /\ returned.value[1].created_at < returned.value[2].created_at

\* C17: the list getUserConversations returns, after the enrichment, is in
\* non-increasing last_message_at order.
C17_ConversationsMostRecentFirst ==
    returned.op = "getUserConversations" =>
        \A j \in DOMAIN returned.value : \A k \in DOMAIN returned.value :
            j < k => returned.value[j].last_message_at >= returned.value[k].last_message_at

\* C17 witness: getUserConversations returned two conversations with different
\* last_message_at.
C17_Witness ==
    /\ returned.op = "getUserConversations"
    /\ Len(returned.value) = 2
    /\ returned.value[1].last_message_at > returned.value[2].last_message_at

\* C19: no message and no participant row references a conversation that does
\* not exist, no conversation and no rental references an item that does not
\* exist, and a deletion of item I leaves no row that references I.
C19_CascadeLeavesNoOrphan ==
    /\ \A m \in messages : ConvExists(m.conversation_id, conversations)
    /\ \A p \in participants : ConvExists(p.conversation_id, conversations)
    /\ \A c \in conversations : ItemExists(c.item_id, items)
    /\ \A r \in rentals : ItemExists(r.item_id, items)
    /\ (returned.op = "deleteItem" /\ returned.deleted) =>
          /\ ~ItemExists(returned.item, items)
          /\ \A c \in conversations : c.item_id # returned.item
          /\ \A r \in rentals : r.item_id # returned.item

\* C19 witness: the deletion of an item removed a rental, a conversation, a
\* message and a participant row.
C19_Witness ==
    /\ returned.op = "deleteItem"
    /\ returned.deleted
    /\ returned.convs > 0 /\ returned.msgs > 0
    /\ returned.parts > 0 /\ returned.rents > 0

\* C20: getOrCreateConversation called by the owner or renter of its triple
\* returns the existing row and inserts nothing when the triple has a row;
\* when it has none, the insert adds exactly one row and that row is returned.
C20_FindOrInsertOne ==
    [][ \A s \in Sessions :
          /\ ( /\ goc[s].pc = "idle" /\ goc'[s].pc = "idle"
               /\ returned'.op = "getOrCreateConversation" )
             => /\ conversations' = conversations
                /\ \E c \in RowsOf(returned'.item, returned'.owner, returned'.renter) :
                      returned'.value = c.id
          /\ ( /\ goc[s].pc = "idle" /\ goc'[s].pc = "insert"
               /\ goc'[s].caller \in {goc'[s].owner, goc'[s].renter} )
             => RowsOf(goc'[s].item, goc'[s].owner, goc'[s].renter) = {}
          /\ ( /\ goc[s].pc = "insert" /\ goc'[s].pc = "idle"
               /\ goc[s].caller \in {goc[s].owner, goc[s].renter}
               /\ RowsOf(goc[s].item, goc[s].owner, goc[s].renter) = {} )
             => /\ Cardinality(conversations') = Cardinality(conversations) + 1
                /\ \E c \in conversations' \ conversations :
                      /\ c.item_id = goc[s].item /\ c.owner_id = goc[s].owner
                      /\ c.renter_id = goc[s].renter
                      /\ returned'.value = c.id
      ]_vars

\* the participant rows of the pair (cid, u)
PairRows(cid, u, parts) ==
    { p \in parts : p.conversation_id = cid /\ p.user_id = u }

\* C21: no (conversation, user) pair ever has two participant rows; an insert
\* of a participant for a pair that has a row leaves the table as it is; and
\* the insert of a conversation whose owner is its renter, where the trigger's
\* second insert meets the row of its first, succeeds and leaves one row for
\* the pair.
C21_OneRowPerPair ==
    [][ /\ \A c \in ConvIds, u \in Users : Cardinality(PairRows(c, u, participants')) <= 1
        /\ \A a \in Users, c \in ConvIds, u \in Users :
              (PairRows(c, u, participants) # {} /\ InsertParticipant(a, c, u))
                 => participants' = participants
        /\ \A s \in Sessions :
              ( /\ goc[s].pc = "insert" /\ goc'[s].pc = "idle"
                /\ goc[s].owner = goc[s].renter /\ goc[s].caller = goc[s].owner
                /\ RowsOf(goc[s].item, goc[s].owner, goc[s].renter) = {} )
              => /\ returned'.value # Null
                 /\ Cardinality(PairRows(returned'.value, goc[s].owner, participants')) = 1
      ]_vars

\* C21 witness: a conversation whose owner is its renter was inserted after
\* the clock moved, its pair has one row, and an earlier conversation has its
\* row from an earlier moment.
C21_Witness ==
    /\ returned.op = "getOrCreateConversation"
    /\ returned.inserted
    /\ returned.value # Null
    /\ returned.owner = returned.renter
    /\ Cardinality(PairRows(returned.value, returned.owner, participants)) = 1
    /\ \E p \in participants : \E q \in participants : p.last_read_at < q.last_read_at

\* C22: an UPDATE of a message issued by a user other than its sender, the
\* other participant of the conversation included, leaves the table messages
\* as it is; and a message row that changes keeps its sender_id and its
\* created_at.
C22_OnlySenderUpdates ==
    [][ /\ \A a \in Users : \A m \in messages :
             (a # m.sender_id
                /\ \E c \in ConvIds, b \in Contents : UpdateMessage(a, m.id, c, b))
             => messages' = messages
        /\ \A m \in messages : \A n \in messages' :
             n.id = m.id => (n.sender_id = m.sender_id /\ n.created_at = m.created_at)
      ]_vars

\* C22 witness: a conversation of two different users holds a message its
\* sender has edited; the other participant can read the message.
C22_Witness ==
    \E c \in conversations : \E m \in MessagesOf(c.id) :
        /\ c.owner_id # c.renter_id
        /\ m.sender_id \in {c.owner_id, c.renter_id}
        /\ m.content = "edited"
        /\ \E x \in {c.owner_id, c.renter_id} \ {m.sender_id} :
              MsgSelectPolicy(x, m, conversations)

\* C23: markAsRead(C, U) leaves conversations and messages alone, leaves every
\* participant row other than (C, U) as it is, changes at most the
\* last_read_at of the row (C, U), and changes nothing when its caller is not U.
C23_MarkAsReadFrame ==
    [][ \A a \in Users, c \in ConvIds, u \in Users, t \in ClientTimes :
          MarkAsRead(a, c, u, t) =>
             /\ conversations' = conversations
             /\ messages' = messages
             /\ \A p \in participants :
                   (p.conversation_id # c \/ p.user_id # u) => p \in participants'
             /\ \A q \in participants' :
                   \/ q \in participants
                   \/ /\ q.conversation_id = c /\ q.user_id = u
                      /\ [q EXCEPT !.last_read_at = 0] \in
                            { [p EXCEPT !.last_read_at = 0] : p \in participants }
             /\ a # u => participants' = participants
      ]_vars

\* C23 witness: u has marked a conversation read after the clock moved; the
\* other participant's row of that conversation and u's row of another
\* conversation keep the earlier last_read_at.
C23_Witness ==
    /\ returned.op = "markAsRead"
    /\ returned.caller = returned.user
    /\ \E p \in PairRows(returned.conv, returned.user, participants) :
          /\ p.last_read_at > 0
          /\ \E q \in participants :
                q.conversation_id = p.conversation_id /\ q.user_id # p.user_id
                   /\ q.last_read_at < p.last_read_at
          /\ \E q \in participants :
                q.conversation_id # p.conversation_id /\ q.user_id = p.user_id
                   /\ q.last_read_at < p.last_read_at

\* the messages channels of the live feed
MessageChannels == { ch \in channels : ch.kind = "messages" }

\* C24: a handler of a messages channel, and the callback it invokes, carry a
\* message of the channel's own conversation; invoking the cancellation handle
\* of a channel leaves every channel of another conversation as it is, open
\* and in the map; and cleanup() unsubscribes every channel the map holds.
C24_IndependentSubscriptions ==
    [][ /\ \A h \in handlers' : \E ch \in MessageChannels' : \E m \in messages' :
              ch.id = h.chan /\ m.id = h.msg /\ m.conversation_id = ch.key
        /\ returned'.op = "callback" =>
              \E ch \in MessageChannels' : \E m \in messages' :
                 ch.id = returned'.chan /\ m.id = returned'.msg
                    /\ m.conversation_id = ch.key
        /\ \A A \in MessageChannels : \A B \in MessageChannels :
              (A.key # B.key /\ Cancel(A.id)) =>
                 /\ B \in channels'
                 /\ subscriptions'[B.key] = subscriptions[B.key]
        /\ Cleanup => \A B \in channels' : B.id \in Subscribed => ~B.open
      ]_vars

\* C24 witness: channel B was open when channel A of another conversation was
\* opened; A's handle has been invoked since, and B, still in the map, has just
\* invoked its callback with a message of its conversation.
C24_Witness ==
    \E A \in MessageChannels : \E B \in MessageChannels :
        /\ A.key # B.key /\ B.id < A.id
        /\ A.cancelled /\ B.open
        /\ subscriptions[B.key] = B.id
        /\ returned.op = "callback" /\ returned.chan = B.id

\* C25: the last_read_at of a participant row never decreases, whatever the
\* order in which the markAsRead calls of the chat view, each made with the
\* time it read when it was called, reach the database.
C25_LastReadNeverDecreases ==
    [][ \A p \in participants : \A q \in participants' :
          (q.conversation_id = p.conversation_id /\ q.user_id = p.user_id)
             => q.last_read_at >= p.last_read_at
      ]_vars

\* C26: the message list the chat view shows never holds the same message id
\* twice.
C26_NoDuplicateShown ==
    \A j \in DOMAIN modal.shown : \A k \in DOMAIN modal.shown :
        j # k => modal.shown[j] # modal.shown[k]

\* C29: every entry of the message list the chat view shows is a message of the
\* conversation selected.
C29_ShownBelongsToSelected ==
    \A k \in DOMAIN modal.shown : \A m \in messages :
        m.id = modal.shown[k] => m.conversation_id = modal.selected

\* C27: the sender of every persisted message is the owner or the renter of
\* the conversation the message belongs to.
C27_SenderIsParty ==
    \A m \in messages : \A c \in conversations :
        c.id = m.conversation_id => m.sender_id \in {c.owner_id, c.renter_id}

\* the owner of item i
OwnerOf(i) == { it.owner_id : it \in { x \in items : x.id = i } }

\* C28: every conversation insert the chat button or the rental request form
\* issues, and every conversation row such a step creates, has the owner of the
\* item as owner_id, the acting user as renter_id, and owner_id # renter_id.
C28_ClientConversationsShape ==
    [][ /\ \A s \in Sessions :
              goc'[s].pc = "insert" =>
                 /\ goc'[s].owner \in OwnerOf(goc'[s].item)
                 /\ goc'[s].renter = goc'[s].caller
                 /\ goc'[s].owner # goc'[s].renter
        /\ \A s \in Sessions :
              rent'[s].pc \in {"find", "create", "send"} =>
                 /\ rent'[s].item.owner_id \in OwnerOf(rent'[s].item.id)
                 /\ rent'[s].item.owner_id # rent'[s].caller
        /\ \A c \in conversations' \ conversations :
              /\ c.owner_id \in OwnerOf(c.item_id)
              /\ c.owner_id # c.renter_id
              /\ \E s \in Sessions :
                    \/ goc[s].pc = "insert" /\ goc[s].caller = c.renter_id
                    \/ rent[s].pc = "create" /\ rent[s].caller = c.renter_id
      ]_vars

\* C28 witness: the chat button of one session and the rental request form of
\* the other have both reached their conversation insert, for the item's owner
\* and the acting user, who is not the owner.
C28_Witness ==
    \E s \in Sessions : \E s2 \in Sessions :
        /\ goc[s].pc = "insert"
        /\ goc[s].owner \in OwnerOf(goc[s].item)
        /\ goc[s].renter = goc[s].caller /\ goc[s].owner # goc[s].caller
        /\ rent[s2].pc = "create"
        /\ rent[s2].item.owner_id # rent[s2].caller

\* the chat view has come to rest: no run of selectConversation is in flight,
\* no handler is running, and no open channel has an insert left to deliver
AtRest ==
    /\ modal.mounted /\ modal.selected # Null
    /\ modal.selecting = {}
    /\ handlers = {}
    /\ \A ch \in MessageChannels : \A m \in messages :
          ~( /\ ch.open /\ ChannelFilter(ch, m) /\ m.id >= ch.from
             /\ MsgSelectPolicy(ch.user, m, conversations) )

\* C30: once the chat view has come to rest with conversation C selected, every
\* message of C the user may read is in the list shown: nothing that was
\* inserted while selectConversation(C) ran, or after it, is left out.
C30_EveryMessageShown ==
    AtRest =>
        \A m \in MessagesOf(modal.selected) :
            MsgSelectPolicy(modal.user, m, conversations)
               => \E k \in DOMAIN modal.shown : modal.shown[k] = m.id

====
